---------------------------- MODULE Spec2Model ----------------------------
(***************************************************************************)
(* Model of ts/src/idl.ts: the IDL account codec (encodeIdlAccount /       *)
(* decodeIdlAccount), the size estimator (accountSize / typeSize), the     *)
(* instruction discriminator (sighash) and the layout compiler             *)
(* (IdlCoder.fieldLayout / IdlCoder.typeDefLayout).                        *)
(*                                                                         *)
(* JavaScript values are represented as follows.                           *)
(*   - a string is a sequence of one-character strings; an absent string   *)
(*     (undefined in a string slot) is noName;                             *)
(*   - an object is a record whose DOMAIN is the object's key set, so that *)
(*     `"Vec" in ty` is `"Vec" \in DOMAIN ty`; undefined in an object slot *)
(*     is the record undefined;                                            *)
(*   - a primitive IdlType, a string literal such as "U8" in the source,   *)
(*     is [prim |-> "U8"]: it is not an object (IsObject is FALSE);         *)
(*   - a call either returns (Ok(v)) or throws (Err(e)).                   *)
(***************************************************************************)
EXTENDS Integers, Sequences, FiniteSets, TLC

VARIABLES idl, op, arg, res

vars == <<idl, op, arg, res>>

---------------------------------------------------------------------------
(* Bounds of the model.                                                    *)

\* Longest idl.types list.
MaxTypes == 2
\* Deepest nesting of Vec / Option / Array in an input type.
MaxDepth == 2
\* The non-zero fixed length of the input Array types.
MaxArrayLen == 2
\* Most variants of an input enum.
MaxVariants == 3

---------------------------------------------------------------------------
(* JavaScript values.                                                      *)

undefined == [undefined |-> TRUE]

noName == <<"undefined">>

Ok(v) == [val |-> v]

Err(e) == [err |-> e]

IsErr(r) == "err" \in DOMAIN r

\* obj[key], undefined when the object has no such key.
Prop(obj, key) == IF key \in DOMAIN obj THEN obj[key] ELSE undefined

\* typeof f === "object"
IsObject(f) == "prim" \notin DOMAIN f

\* The result of xs.map(f) where R[i] is the outcome of f(xs[i]): the map
\* runs front to back, so the first call that throws ends it.
MapResult(R) ==
    IF \E i \in 1..Len(R) : IsErr(R[i])
    THEN R[CHOOSE i \in 1..Len(R) :
              IsErr(R[i]) /\ \A j \in 1..(i - 1) : ~IsErr(R[j])]
    ELSE Ok([i \in 1..Len(R) |-> R[i].val])

RECURSIVE SumSeq(_)
SumSeq(s) == IF s = <<>> THEN 0 ELSE Head(s) + SumSeq(Tail(s))

\* Math.max(...s) for a non-empty s.
MathMax(s) == CHOOSE m \in {s[i] : i \in 1..Len(s)} :
                  \A i \in 1..Len(s) : s[i] <= m

---------------------------------------------------------------------------
(* Case conversion: snakeCase (snake-case) and camelCase (camelcase), over *)
(* the letters the inputs use.                                             *)

LowerLetters == {"a", "b", "g", "x", "y"}

UpperLetters == {"A", "B", "G", "X", "Y"}

IsLower(c) == c \in LowerLetters

IsUpper(c) == c \in UpperLetters

IsSeparator(c) == ~IsLower(c) /\ ~IsUpper(c)

toLowerCase(c) ==
    CASE c = "A" -> "a" [] c = "B" -> "b" [] c = "G" -> "g"
      [] c = "X" -> "x" [] c = "Y" -> "y" [] OTHER -> c

toUpperCase(c) ==
    CASE c = "a" -> "A" [] c = "b" -> "B" [] c = "g" -> "G"
      [] c = "x" -> "X" [] c = "y" -> "Y" [] OTHER -> c

\* A word ends after s[i] when a lower-case letter is followed by an
\* upper-case one, or an upper-case one by an upper-case and a lower-case.
WordBreakAfter(s, i) ==
    /\ i < Len(s)
    /\ \/ IsLower(s[i]) /\ IsUpper(s[i + 1])
       \/ /\ IsUpper(s[i]) /\ IsUpper(s[i + 1])
          /\ i + 2 <= Len(s) /\ IsLower(s[i + 2])

\* The lower-cased words of s: split at word breaks and at runs of
\* separators, empty words dropped.
RECURSIVE splitWords(_, _, _, _)
splitWords(s, i, cur, acc) ==
    IF i > Len(s) THEN (IF cur = <<>> THEN acc ELSE Append(acc, cur))
    ELSE IF IsSeparator(s[i])
    THEN splitWords(s, i + 1, <<>>, IF cur = <<>> THEN acc ELSE Append(acc, cur))
    ELSE LET cur2 == Append(cur, toLowerCase(s[i]))
         IN  IF WordBreakAfter(s, i)
             THEN splitWords(s, i + 1, <<>>, Append(acc, cur2))
             ELSE splitWords(s, i + 1, cur2, acc)

RECURSIVE joinWords(_, _)
joinWords(ws, sep) ==
    IF ws = <<>> THEN <<>>
    ELSE IF Len(ws) = 1 THEN ws[1]
    ELSE ws[1] \o sep \o joinWords(Tail(ws), sep)

snakeCase(s) == joinWords(splitWords(s, 1, <<>>, <<>>), <<"_">>)

capitalize(w) == IF w = <<>> THEN w ELSE <<toUpperCase(w[1])>> \o Tail(w)

camelCase(s) ==
    LET ws == splitWords(s, 1, <<>>, <<>>)
    IN  IF ws = <<>> THEN <<>>
        ELSE ws[1] \o joinWords([i \in 1..(Len(ws) - 1) |-> capitalize(ws[i + 1])], <<>>)

---------------------------------------------------------------------------
(* sighash.                                                                *)

CharCode(c) ==
    CASE c = "a" -> 97 [] c = "b" -> 98 [] c = "g" -> 103
      [] c = "x" -> 120 [] c = "y" -> 121
      [] c = "A" -> 65 [] c = "B" -> 66 [] c = "G" -> 71
      [] c = "X" -> 88 [] c = "Y" -> 89
      [] c = "_" -> 95 [] c = ":" -> 58 [] OTHER -> 63

\* Bytes of a sha256 digest.
DigestLen == 32

\* Bytes sighash keeps of the digest.
SighashLen == 8

\* sha256.digest: a function of the preimage alone to DigestLen bytes.  The
\* model uses a positional checksum in place of SHA-256; nothing checked
\* rests on collision resistance.
sha256digest(preimage) ==
    [k \in 1..DigestLen |->
        (k * k + SumSeq([j \in 1..Len(preimage) |->
                            CharCode(preimage[j]) * (j + k)])) % 256]

\* buf.slice(from, to) with 0 <= from <= to.
slice(buf, from, to) ==
    SubSeq(buf, from + 1, IF to < Len(buf) THEN to ELSE Len(buf))

sighashPreimage(nameSpace, name) == nameSpace \o <<":">> \o name

\* Mutant: the name is hashed as given.
sighashNameAsGiven(ixName) == ixName

\* let name = snakeCase(ixName)
sighashName(ixName) == snakeCase(ixName)

sighash(nameSpace, ixName) ==
    LET name == sighashName(ixName)
        preimage == sighashPreimage(nameSpace, name)
    IN  slice(sha256digest(preimage), 0, SighashLen)

---------------------------------------------------------------------------
(* The IDL account codec.                                                  *)

\* Buffer.alloc(1000) in encodeIdlAccount.
BufferSize == 1000

\* Bytes of a public key.
PublicKeyLen == 32

\* Bytes of the u32 length prefix of borsh.vecU8.
U32Len == 4

u32le(n) ==
    <<n % 256, (n \div 256) % 256, (n \div 65536) % 256,
      (n \div 16777216) % 256>>

readU32le(b, offset) ==
    b[offset + 1] + 256 * b[offset + 2] + 65536 * b[offset + 3]
        + 16777216 * b[offset + 4]

\* IDL_ACCOUNT_LAYOUT.encode(acc, b): writes authority, the length prefix
\* and the data at offset 0 of b and returns the number of bytes written;
\* a write past the end of b throws RangeError.
IDL_ACCOUNT_LAYOUT_encode(acc, b) ==
    LET bytes == acc.authority \o u32le(Len(acc.data)) \o acc.data
    IN  IF Len(bytes) > Len(b) THEN Err("RangeError")
        ELSE Ok([buffer |-> [i \in 1..Len(b) |->
                                IF i <= Len(bytes) THEN bytes[i] ELSE b[i]],
                 len |-> Len(bytes)])

\* IDL_ACCOUNT_LAYOUT.decode(data); a read past the end throws RangeError.
IDL_ACCOUNT_LAYOUT_decode(data) ==
    IF Len(data) < PublicKeyLen + U32Len THEN Err("RangeError")
    ELSE LET n == readU32le(data, PublicKeyLen)
             start == PublicKeyLen + U32Len
         IN  IF start + n > Len(data) THEN Err("RangeError")
             ELSE Ok([authority |-> SubSeq(data, 1, PublicKeyLen),
                      data |-> SubSeq(data, start + 1, start + n)])

decodeIdlAccount(data) == IDL_ACCOUNT_LAYOUT_decode(data)

encodeIdlAccount(acc) ==
    LET buffer == [i \in 1..BufferSize |-> 0]
        r == IDL_ACCOUNT_LAYOUT_encode(acc, buffer)
    IN  IF IsErr(r) THEN r ELSE Ok(slice(r.val.buffer, 0, r.val.len))

---------------------------------------------------------------------------
(* Recursion through Defined references.                                   *)

\* Mutant: find instead of filter, the first match alone.
findByName(types, name) ==
    LET f == SelectSeq(types, LAMBDA t : t.name = name)
    IN  IF Len(f) > 1 THEN <<f[1]>> ELSE f

\* idl.types?.filter((t) => t.name === name) ?? [], and types.filter(...).
filterByName(types, name) == SelectSeq(types, LAMBDA t : t.name = name)

\* Neither accountSize nor the layout compiler keeps a visited set.  A
\* nested call is made only for a name that matches exactly one entry of
\* the type list, so a chain of more nested calls than the list has entries
\* has entered some definition twice; the calls are pure, so that definition
\* is then entered again and again and the recursion has no bound.  The
\* model stops there and reports the outcome "CallStackExceeded".
CallDepthLimit(types) == Len(types) + 1

---------------------------------------------------------------------------
(* The size estimator.                                                     *)

\* The fixed sizes of typeSize's switch.
primSize(tag) ==
    CASE tag = "Bool" -> 1
      [] tag = "U8" -> 1
      [] tag = "I8" -> 1
      [] tag = "I16" -> 2
      [] tag = "U16" -> 2
      [] tag = "U32" -> 4
      [] tag = "I32" -> 4
      [] tag = "U64" -> 8
      [] tag = "I64" -> 8
      [] tag = "U128" -> 16
      [] tag = "I128" -> 16
      [] tag = "Bytes" -> 1
      [] tag = "String" -> 1
      [] tag = "PublicKey" -> 32
      [] OTHER -> 0

PrimTags ==
    {"Bool", "U8", "I8", "I16", "U16", "U32", "I32", "U64", "I64", "U128",
     "I128", "Bytes", "String", "PublicKey"}

\* The types of idl, [] when idl has none.
idlTypes(i) == IF "types" \in DOMAIN i THEN i.types ELSE <<>>

\* Mutant: the test for a name is dropped.
sizeIsObjectField(f) == IsObject(f)

\* Whether a variant field is a named field rather than a tuple entry, as
\* accountSize tests it.
sizeIsNamedField(f) == IsObject(f) /\ "name" \in DOMAIN f

\* fields.reduce((a, b) => a + b) with no initial value: throws TypeError
\* on an empty array.
reduceSum(sizes) == IF Len(sizes) = 0 THEN Err("TypeError") ELSE Ok(SumSeq(sizes))

\* fields.reduce((a, b) => a + b, 0)
reduceSum0(sizes) == Ok(SumSeq(sizes))

\* Mutant: the presence flag is not counted.
optionSizeNoFlag(inner) == inner

optionSize(inner) == IF IsErr(inner) THEN inner ELSE Ok(1 + inner.val)

arraySize(inner, n) == IF IsErr(inner) THEN inner ELSE Ok(inner.val * n)

enumSize(variantSizes) == Ok(MathMax(variantSizes) + 1)

RECURSIVE accountSize(_, _, _)
RECURSIVE typeSize(_, _, _)

\* accountSize(idl, idlAccount); depth counts the nested accountSize calls.
accountSize(i, idlAccount, depth) ==
    IF depth > CallDepthLimit(idlTypes(i)) THEN Err("CallStackExceeded")
    ELSE IF idlAccount.type.kind = "enum"
    THEN LET variantSize(variant) ==
                 IF "fields" \notin DOMAIN variant THEN Ok(0)
                 ELSE LET sizes == MapResult(
                              [j \in 1..Len(variant.fields) |->
                                  LET f == variant.fields[j]
                                  IN  IF ~sizeIsNamedField(f)
                                      THEN Err("TupleNotImplemented")
                                      ELSE typeSize(i, Prop(f, "type"), depth)])
                      IN  IF IsErr(sizes) THEN sizes ELSE reduceSum(sizes.val)
             variantSizes == MapResult(
                 [k \in 1..Len(idlAccount.type.variants) |->
                     variantSize(idlAccount.type.variants[k])])
         IN  IF IsErr(variantSizes) THEN variantSizes
             ELSE enumSize(variantSizes.val)
    ELSE IF "fields" \notin DOMAIN idlAccount.type THEN Ok(0)
    ELSE LET sizes == MapResult(
                 [j \in 1..Len(idlAccount.type.fields) |->
                     typeSize(i, idlAccount.type.fields[j].type, depth)])
         IN  IF IsErr(sizes) THEN sizes ELSE reduceSum0(sizes.val)

typeSize(i, ty, depth) ==
    IF ty = undefined THEN Err("TypeError")  \* `"Vec" in undefined`
    ELSE IF ~IsObject(ty)
    THEN IF ty.prim \in PrimTags THEN Ok(primSize(ty.prim))
         ELSE Err("TypeError")  \* `"Vec" in ty` on a string
    ELSE IF "Vec" \in DOMAIN ty THEN Ok(1)
    ELSE IF "Option" \in DOMAIN ty
    THEN optionSize(typeSize(i, ty.Option, depth))
    ELSE IF "Defined" \in DOMAIN ty
    THEN LET filtered == filterByName(idlTypes(i), ty.Defined)
         IN  IF Len(filtered) # 1 THEN Err("TypeNotFound")
             ELSE accountSize(i, filtered[1], depth + 1)
    ELSE IF "Array" \in DOMAIN ty
    THEN arraySize(typeSize(i, ty.Array[1], depth), ty.Array[2])
    ELSE Err("InvalidType")

---------------------------------------------------------------------------
(* The layout compiler.  A layout is the record of the borsh constructor   *)
(* that built it, of its parts and of its property name.                   *)

\* The borsh constructor of each case of fieldLayout's switch.
primLayout(tag) ==
    CASE tag = "Bool" -> "bool"
      [] tag = "U8" -> "u8"
      [] tag = "I8" -> "i8"
      [] tag = "U16" -> "u16"
      [] tag = "I16" -> "i16"
      [] tag = "U32" -> "u32"
      [] tag = "I32" -> "i32"
      [] tag = "U64" -> "u64"
      [] tag = "I64" -> "i64"
      [] tag = "U128" -> "u128"
      [] tag = "I128" -> "i128"
      [] tag = "Bytes" -> "vecU8"
      [] tag = "String" -> "str"
      [] tag = "PublicKey" -> "publicKey"
      [] OTHER -> "none"

borshLeaf(kind, property) == [layout |-> kind, property |-> property]

\* borsh.vec(elementLayout, property): a u32 count, then the elements.
borshVec(elementLayout, property) ==
    [layout |-> "vec", elementLayout |-> elementLayout, property |-> property]

\* borsh.option(layout, property): a one-byte flag, then the value if set.
borshOption(elementLayout, property) ==
    [layout |-> "option", elementLayout |-> elementLayout, property |-> property]

\* borsh.array(elementLayout, length, property): length elements, no prefix.
borshArray(elementLayout, length, property) ==
    [layout |-> "array", elementLayout |-> elementLayout, count |-> length,
     property |-> property]

\* borsh.struct(fields, property): the fields in order.
borshStruct(fieldLayouts, property) ==
    [layout |-> "struct", fields |-> fieldLayouts, property |-> property]

\* borsh.rustEnum(variants, property): a u8 discriminator, then the layout
\* registered under it; variants[k] is registered under k, counted from 0.
borshRustEnum(variants, property) ==
    [layout |-> "rustEnum",
     registry |-> [k \in 0..(Len(variants) - 1) |-> variants[k + 1]],
     property |-> property]

\* layout.replicate(name): the same layout under another property name.
replicate(layout, name) == [layout EXCEPT !.property = name]

\* The type fieldLayout compiles for the elements of a Vec field.
vecElementType(ty) == Prop(ty, "vec")

\* Whether a variant field is a tuple entry, as typeDefLayout tests it.
layoutIsTupleField(f) ==
    IF "name" \in DOMAIN f THEN f.name = noName ELSE TRUE

\* Mutant: the variants are taken last to first.
enumVariantsReversed(typeDef) ==
    [k \in 1..Len(typeDef.type.variants) |->
        typeDef.type.variants[Len(typeDef.type.variants) + 1 - k]]

\* The variants typeDefLayout maps over, in the order it maps them.
enumVariants(typeDef) == typeDef.type.variants

RECURSIVE fieldLayout(_, _, _)
RECURSIVE typeDefLayout(_, _, _, _)

\* IdlCoder.fieldLayout(field, types); types is [value |-> list] or
\* undefined; depth counts the nested typeDefLayout calls.
fieldLayout(field, types, depth) ==
    LET fieldName == IF "name" \in DOMAIN field /\ field.name # noName
                     THEN camelCase(field.name) ELSE noName
        ty == Prop(field, "type")
    IN  IF ty = undefined THEN Err("TypeError")  \* `"Vec" in undefined`
        ELSE IF ~IsObject(ty)
        THEN IF ty.prim \in PrimTags
             THEN Ok(borshLeaf(primLayout(ty.prim), fieldName))
             ELSE Err("TypeError")  \* `"Vec" in ty` on a string
        ELSE IF "Vec" \in DOMAIN ty
        THEN LET inner == fieldLayout(
                     [name |-> noName, type |-> vecElementType(ty)], types, depth)
             IN  IF IsErr(inner) THEN inner ELSE Ok(borshVec(inner.val, fieldName))
        ELSE IF "Option" \in DOMAIN ty
        THEN LET inner == fieldLayout(
                     [name |-> noName, type |-> ty.Option], types, depth)
             IN  IF IsErr(inner) THEN inner ELSE Ok(borshOption(inner.val, fieldName))
        ELSE IF "Defined" \in DOMAIN ty
        THEN IF types = undefined THEN Err("TypesNotProvided")
             ELSE LET filtered == filterByName(types.value, ty.Defined)
                  IN  IF Len(filtered) # 1 THEN Err("TypeNotFound")
                      ELSE typeDefLayout(filtered[1], types, fieldName, depth + 1)
        ELSE IF "Array" \in DOMAIN ty
        THEN LET innerLayout == fieldLayout(
                     [name |-> noName, type |-> ty.Array[1]], types, depth)
             IN  IF IsErr(innerLayout) THEN innerLayout
                 ELSE Ok(borshArray(innerLayout.val, ty.Array[2], fieldName))
        ELSE Err("NotYetImplemented")

\* IdlCoder.typeDefLayout(typeDef, types = [], name).
typeDefLayout(typeDef, typesArg, name, depth) ==
    LET types == IF typesArg = undefined THEN [value |-> <<>>] ELSE typesArg
    IN  IF depth > CallDepthLimit(types.value) THEN Err("CallStackExceeded")
        ELSE IF typeDef.type.kind = "struct"
        THEN LET fieldLayouts == MapResult(
                     [j \in 1..Len(typeDef.type.fields) |->
                         fieldLayout(typeDef.type.fields[j], types, depth)])
             IN  IF IsErr(fieldLayouts) THEN fieldLayouts
                 ELSE Ok(borshStruct(fieldLayouts.val, name))
        ELSE IF typeDef.type.kind = "enum"
        THEN LET variantLayout(variant) ==
                     LET vname == camelCase(variant.name)
                     IN  IF "fields" \notin DOMAIN variant
                         THEN Ok(borshStruct(<<>>, vname))
                         ELSE LET fieldLayouts == MapResult(
                                      [j \in 1..Len(variant.fields) |->
                                          LET f == variant.fields[j]
                                          IN  IF layoutIsTupleField(f)
                                              THEN Err("TupleNotImplemented")
                                              ELSE fieldLayout(f, types, depth)])
                              IN  IF IsErr(fieldLayouts) THEN fieldLayouts
                                  ELSE Ok(borshStruct(fieldLayouts.val, vname))
                 ordered == enumVariants(typeDef)
                 variants == MapResult(
                     [k \in 1..Len(ordered) |-> variantLayout(ordered[k])])
             IN  IF IsErr(variants) THEN variants
                 ELSE IF name # noName
                 THEN Ok(replicate(borshRustEnum(variants.val, noName), name))
                 ELSE Ok(borshRustEnum(variants.val, name))
        ELSE Err("UnknownTypeKind")

---------------------------------------------------------------------------
(* Inputs.                                                                 *)

Prim(tag) == [prim |-> tag]

Defined(name) == [Defined |-> name]

NamedField(name, ty) == [name |-> name, type |-> ty]

SeqsUpTo(S, n) == UNION {[1..k -> S] : k \in 0..n}

\* Names of type definitions; no schema defines G.
TypeNames == {<<"A">>, <<"B">>, <<"G">>}

\* The type definitions the schemas are built from.
SchemaDefs ==
    {[name |-> <<"A">>,
      type |-> [kind |-> "struct",
                fields |-> <<NamedField(<<"x">>, Prim("U32")),
                             NamedField(<<"y">>, Prim("String"))>>]],
     [name |-> <<"A">>,
      type |-> [kind |-> "struct",
                fields |-> <<NamedField(<<"x">>,
                                 [Option |-> Defined(<<"A">>)])>>]],
     [name |-> <<"B">>,
      type |-> [kind |-> "enum",
                variants |-> <<[name |-> <<"A">>,
                                fields |-> <<NamedField(<<"x">>, Prim("U8"))>>],
                               [name |-> <<"B">>,
                                fields |-> <<NamedField(<<"y">>, Prim("U64"))>>]>>]],
     [name |-> <<"B">>,
      type |-> [kind |-> "struct",
                fields |-> <<NamedField(<<"x">>,
                                 [Array |-> <<Defined(<<"A">>), 2>>])>>]]}

\* The schemas: with a types list of up to MaxTypes definitions, or none.
Idls ==
    {[name |-> <<"a">>, types |-> ts] : ts \in SeqsUpTo(SchemaDefs, MaxTypes)}
        \cup {[name |-> <<"a">>]}

ArrayLens == {0, MaxArrayLen}

Wrap(S) ==
    {[Vec |-> t] : t \in S} \cup {[Option |-> t] : t \in S}
        \cup {[Array |-> <<t, n>>] : t \in S, n \in ArrayLens}

\* The types that the input types nest.
NestBase ==
    {Prim("U8"), Prim("U64"), Prim("String")} \cup {Defined(n) : n \in TypeNames}

RECURSIVE NestedTypes(_)
NestedTypes(d) ==
    IF d = 0 THEN NestBase
    ELSE LET S == NestedTypes(d - 1) IN S \cup Wrap(S)

InputTypes == {Prim(t) : t \in PrimTags} \cup NestedTypes(MaxDepth)

FieldNames == {noName, <<"a", "_", "b">>}

FieldInputs == {NamedField(n, t) : n \in FieldNames, t \in InputTypes}

\* The field lists of the input enums' variants; the last two hold a tuple
\* entry.
VariantFieldLists ==
    {<<>>,
     <<NamedField(<<"x">>, Prim("U8"))>>,
     <<NamedField(<<"y">>, Prim("U64")), NamedField(<<"a", "_", "b">>, Defined(<<"A">>))>>,
     <<Defined(<<"A">>)>>,
     <<NamedField(<<"x">>, Defined(<<"G">>)), Prim("U8")>>}

VariantNames == <<<<"A">>, <<"B">>, <<"G", "a">>, <<"x", "_", "y">>, <<"Y">>>>

\* The variant at position k: named VariantNames[k], with no fields key
\* (shape undefined) or with a field list.
VariantAt(k, shape) ==
    IF shape = <<undefined>> THEN [name |-> VariantNames[k]]
    ELSE [name |-> VariantNames[k], fields |-> shape]

VariantShapes == VariantFieldLists \cup {<<undefined>>}

EnumInputs ==
    {[name |-> <<"G">>,
      type |-> [kind |-> "enum",
                variants |-> [k \in 1..Len(shapes) |-> VariantAt(k, shapes[k])]]] :
        shapes \in SeqsUpTo(VariantShapes, MaxVariants) \ {<<>>}}

PairTypes ==
    {Prim("U32"), Prim("String"), Defined(<<"A">>), [Option |-> Defined(<<"B">>)]}

StructInputs ==
    {[name |-> <<"G">>, type |-> [kind |-> "struct", fields |-> fs]] :
        fs \in {<<>>} \cup {<<NamedField(<<"x">>, t)>> : t \in InputTypes}
                 \cup {<<NamedField(<<"x">>, t), NamedField(<<"a", "_", "b">>, u)>> :
                          t \in PairTypes, u \in PairTypes}}

TypeDefInputs == StructInputs \cup EnumInputs

Namespaces == {<<"g">>, <<"a", "b">>}

IxNames ==
    {<<"a", "B">>, <<"a", "_", "b">>, <<"a", "b">>, <<"A", "b">>, <<"x", "Y", "b">>,
     <<"x", "_", "y", "_", "b">>}

PayloadLens == {0, 1, 300, 964, 965}

Accounts ==
    {[authority |-> [i \in 1..PublicKeyLen |-> (i * a) % 256],
      data |-> [i \in 1..n |-> (i * m) % 256]] :
        a \in {0, 3}, n \in PayloadLens, m \in {1, 7}}

---------------------------------------------------------------------------
(* The calls.  Every function of the module is pure: a behaviour is one    *)
(* call on a schema, and decodeIdlAccount may follow encodeIdlAccount on   *)
(* the bytes it returned.                                                  *)

\* The types argument a caller holding idl passes: idl.types.
typesOf(i) == IF "types" \in DOMAIN i THEN [value |-> i.types] ELSE undefined

Init ==
    /\ idl \in Idls
    /\ op = "none"
    /\ arg = undefined
    /\ res = undefined

AccountSize ==
    /\ op = "none"
    /\ \E td \in TypeDefInputs :
          /\ arg' = td
          /\ res' = accountSize(idl, td, 1)
    /\ op' = "accountSize"
    /\ UNCHANGED idl

TypeDefLayout ==
    /\ op = "none"
    /\ \E td \in TypeDefInputs :
          /\ arg' = td
          /\ res' = typeDefLayout(td, typesOf(idl), noName, 1)
    /\ op' = "typeDefLayout"
    /\ UNCHANGED idl

FieldLayout ==
    /\ op = "none"
    /\ \E f \in FieldInputs :
          /\ arg' = f
          /\ res' = fieldLayout(f, typesOf(idl), 0)
    /\ op' = "fieldLayout"
    /\ UNCHANGED idl

Sighash ==
    /\ op = "none"
    /\ \E ns \in Namespaces, n \in IxNames :
          /\ arg' = [nameSpace |-> ns, ixName |-> n]
          /\ res' = Ok(sighash(ns, n))
    /\ op' = "sighash"
    /\ UNCHANGED idl

EncodeIdlAccount ==
    /\ op = "none"
    /\ \E acc \in Accounts :
          /\ arg' = acc
          /\ res' = encodeIdlAccount(acc)
    /\ op' = "encodeIdlAccount"
    /\ UNCHANGED idl

DecodeIdlAccount ==
    /\ op = "encodeIdlAccount"
    /\ ~IsErr(res)
    /\ arg' = res.val
    /\ res' = decodeIdlAccount(res.val)
    /\ op' = "decodeIdlAccount"
    /\ UNCHANGED idl

Next ==
    \/ AccountSize
    \/ TypeDefLayout
    \/ FieldLayout
    \/ Sighash
    \/ EncodeIdlAccount
    \/ DecodeIdlAccount

Spec == Init /\ [][Next]_vars

---------------------------------------------------------------------------
(* Definitions the properties share.                                       *)

\* The positions of the entries of idl's type list named name.
MatchesOf(i, name) ==
    {k \in 1..Len(idlTypes(i)) : idlTypes(i)[k].name = name}

\* The size the estimator's contract gives a field type: a fixed width for
\* a primitive, 1 for a variable-length type, 1 + inner for Option,
\* n * inner for Array, and for Defined the accountSize of the one
\* definition of that name; no size when a reference has none.
RECURSIVE ContractFieldSize(_, _)
ContractFieldSize(i, ty) ==
    IF ~IsObject(ty)
    THEN Ok(CASE ty.prim \in {"Bool", "U8", "I8"} -> 1
              [] ty.prim \in {"U16", "I16"} -> 2
              [] ty.prim \in {"U32", "I32"} -> 4
              [] ty.prim \in {"U64", "I64"} -> 8
              [] ty.prim \in {"U128", "I128"} -> 16
              [] ty.prim = "PublicKey" -> 32
              [] ty.prim \in {"Bytes", "String"} -> 1)
    ELSE IF "Vec" \in DOMAIN ty THEN Ok(1)
    ELSE IF "Option" \in DOMAIN ty
    THEN LET r == ContractFieldSize(i, ty.Option)
         IN  IF IsErr(r) THEN r ELSE Ok(1 + r.val)
    ELSE IF "Array" \in DOMAIN ty
    THEN LET r == ContractFieldSize(i, ty.Array[1])
         IN  IF IsErr(r) THEN r ELSE Ok(ty.Array[2] * r.val)
    ELSE IF Cardinality(MatchesOf(i, ty.Defined)) = 1
         THEN accountSize(i, idlTypes(i)[CHOOSE k \in MatchesOf(i, ty.Defined) : TRUE], 2)
         ELSE Err("Unresolved")

\* The contract sizes of a list of named fields.
ContractSizes(i, fields) ==
    [j \in 1..Len(fields) |-> ContractFieldSize(i, fields[j].type)]

AllOk(R) == \A j \in 1..Len(R) : ~IsErr(R[j])

Vals(R) == [j \in 1..Len(R) |-> R[j].val]

IsTupleEntry(f) == "name" \notin DOMAIN f

VariantFields(v) == IF "fields" \in DOMAIN v THEN v.fields ELSE <<>>

HasTupleEntry(td) ==
    \E k \in 1..Len(td.type.variants) :
        \E j \in 1..Len(VariantFields(td.type.variants[k])) :
            IsTupleEntry(VariantFields(td.type.variants[k])[j])

IsEnumCall == op \in {"accountSize", "typeDefLayout"} /\ arg.type.kind = "enum"

---------------------------------------------------------------------------
(* C1: whenever fieldLayout compiles a type T, it also compiles Vec(T),    *)
(* Option(T) and Array(T, n), and the container layout wraps exactly the   *)
(* layout compiled from T.                                                 *)

C1_ContainerWrapsInner ==
    (op = "fieldLayout" /\ IsObject(arg.type)
        /\ DOMAIN arg.type \subseteq {"Vec", "Option", "Array"})
    => LET T == IF "Vec" \in DOMAIN arg.type THEN arg.type.Vec
                ELSE IF "Option" \in DOMAIN arg.type THEN arg.type.Option
                ELSE arg.type.Array[1]
           inner == fieldLayout([name |-> noName, type |-> T], typesOf(idl), 0)
           fieldName == IF arg.name # noName THEN camelCase(arg.name) ELSE noName
       IN  ~IsErr(inner)
           => res = Ok(IF "Vec" \in DOMAIN arg.type
                       THEN borshVec(inner.val, fieldName)
                       ELSE IF "Option" \in DOMAIN arg.type
                       THEN borshOption(inner.val, fieldName)
                       ELSE borshArray(inner.val, arg.type.Array[2], fieldName))

---------------------------------------------------------------------------
(* C2: for a struct whose fields all have a contract size (every Defined   *)
(* reference outside a Vec has exactly one definition, which has a size),  *)
(* accountSize returns the sum of the fields' contract sizes, 0 for no     *)
(* fields.                                                                 *)

C2_StructSizeIsSumOfFieldSizes ==
    (op = "accountSize" /\ arg.type.kind = "struct"
        /\ AllOk(ContractSizes(idl, arg.type.fields)))
    => res = Ok(SumSeq(Vals(ContractSizes(idl, arg.type.fields))))

\* A struct of a U32 and a String field has size 5; so has a struct of one
\* Defined field that resolves to it.
C2_Witness ==
    /\ op = "accountSize"
    /\ arg.type.kind = "struct"
    /\ Len(arg.type.fields) = 2
    /\ arg.type.fields[1].type = Prim("U32")
    /\ arg.type.fields[2].type = Prim("String")
    /\ res = Ok(5)

---------------------------------------------------------------------------
(* C3: for an enum whose variant fields are all named and have a contract  *)
(* size, accountSize returns 1 + the largest sum of a variant's field      *)
(* sizes, a variant with no field list or an empty one counting 0.         *)

C3_EnumSizeIsOnePlusMaxVariant ==
    (op = "accountSize" /\ arg.type.kind = "enum" /\ ~HasTupleEntry(arg)
        /\ \A k \in 1..Len(arg.type.variants) :
              AllOk(ContractSizes(idl, VariantFields(arg.type.variants[k]))))
    => res = Ok(1 + MathMax([k \in 1..Len(arg.type.variants) |->
                    SumSeq(Vals(ContractSizes(idl,
                        VariantFields(arg.type.variants[k]))))]))

---------------------------------------------------------------------------
(* C4: a Defined(name) reference with exactly one definition of that name  *)
(* in the supplied list yields the result of that definition (typeDefLayout*)
(* under the field's name, accountSize), and with none or several yields   *)
(* the type-not-found error.                                               *)

C4_DefinedResolvesExactlyOne ==
    /\ (op = "fieldLayout" /\ IsObject(arg.type) /\ "Defined" \in DOMAIN arg.type
           /\ "types" \in DOMAIN idl)
       => LET m == MatchesOf(idl, arg.type.Defined)
              fieldName == IF arg.name # noName THEN camelCase(arg.name) ELSE noName
          IN  IF Cardinality(m) = 1
              THEN res = typeDefLayout(idl.types[CHOOSE k \in m : TRUE],
                                       [value |-> idl.types], fieldName, 1)
              ELSE res = Err("TypeNotFound")
    /\ (op = "accountSize" /\ arg.type.kind = "struct" /\ Len(arg.type.fields) = 1
           /\ IsObject(arg.type.fields[1].type)
           /\ "Defined" \in DOMAIN arg.type.fields[1].type)
       => LET m == MatchesOf(idl, arg.type.fields[1].type.Defined)
          IN  IF Cardinality(m) = 1
              THEN res = accountSize(idl, idlTypes(idl)[CHOOSE k \in m : TRUE], 2)
              ELSE res = Err("TypeNotFound")

\* One definition is named B, an enum: the reference compiles to its layout.
C4_Witness ==
    /\ op = "fieldLayout"
    /\ arg.type = Defined(<<"B">>)
    /\ Cardinality(MatchesOf(idl, <<"B">>)) = 1
    /\ ~IsErr(res)
    /\ res.val.layout = "rustEnum"

---------------------------------------------------------------------------
(* C5: an enum with a tuple-style variant field makes both typeDefLayout   *)
(* and accountSize raise the 'not yet implemented' error, wherever the     *)
(* field stands.                                                           *)

\* C5 as stated: the error is always the 'not yet implemented' one.
C5_TupleAlwaysNotImplemented ==
    (IsEnumCall /\ HasTupleEntry(arg)) => res = Err("TupleNotImplemented")

\* The variant and the position in it of the first tuple entry.
FirstTupleVariant(td) ==
    CHOOSE k \in 1..Len(td.type.variants) :
        /\ \E j \in 1..Len(VariantFields(td.type.variants[k])) :
              IsTupleEntry(VariantFields(td.type.variants[k])[j])
        /\ \A h \in 1..(k - 1) :
              \A j \in 1..Len(VariantFields(td.type.variants[h])) :
                  ~IsTupleEntry(VariantFields(td.type.variants[h])[j])

FirstTupleField(v) ==
    CHOOSE j \in 1..Len(v.fields) :
        IsTupleEntry(v.fields[j]) /\ \A h \in 1..(j - 1) : ~IsTupleEntry(v.fields[h])

\* The enum td cut off before its first tuple entry: the variants declared
\* before that entry's variant, then (when fields precede the entry in its
\* own variant) that variant with those fields alone.
BeforeFirstTuple(td) ==
    LET k == FirstTupleVariant(td)
        v == td.type.variants[k]
        j == FirstTupleField(v)
        before == SubSeq(td.type.variants, 1, k - 1)
        cut == IF j = 1 THEN before
               ELSE Append(before, [v EXCEPT !.fields = SubSeq(v.fields, 1, j - 1)])
    IN  [td EXCEPT !.type.variants = cut]

\* Whether what is declared before the first tuple entry goes through
\* without an error of its own, in the call that was made.
NothingFailsBeforeTuple ==
    LET cut == BeforeFirstTuple(arg)
    IN  \/ cut.type.variants = <<>>
        \/ /\ op = "accountSize"
           /\ ~IsErr(accountSize(idl, cut, 1))
        \/ /\ op = "typeDefLayout"
           /\ ~IsErr(typeDefLayout(cut, typesOf(idl), noName, 1))

\* C5 as amended: the call raises an error and returns nothing, and the error
\* is the 'not yet implemented' one whenever nothing declared before the
\* first tuple entry raises an error of its own.
C5_TupleRaisesFirstErrorInOrder ==
    (IsEnumCall /\ HasTupleEntry(arg))
    => /\ IsErr(res)
       /\ NothingFailsBeforeTuple => res = Err("TupleNotImplemented")

\* The tuple entry stands in the second variant, after a variant that goes
\* through.
C5_Witness ==
    /\ IsEnumCall
    /\ HasTupleEntry(arg)
    /\ FirstTupleVariant(arg) = 2
    /\ NothingFailsBeforeTuple
    /\ res = Err("TupleNotImplemented")

---------------------------------------------------------------------------
(* C6: the tagged union typeDefLayout builds for an enum without tuple     *)
(* entries registers, under discriminant i, the struct layout of the       *)
(* fields of the variant declared at zero-based position i (no fields for  *)
(* a variant without any), at top level and as a named field alike.        *)

\* The layout of the variant v: its fields' layouts in order, under its
\* camel-cased name.
ExpectedVariantLayout(v, types) ==
    borshStruct([j \in 1..Len(VariantFields(v)) |->
                    fieldLayout(VariantFields(v)[j], types, 1).val],
                camelCase(v.name))

\* The discriminant written for a value of the variant named vname: that of
\* the first registered layout of that property name.
DiscriminantOf(layout, vname) ==
    CHOOSE d \in DOMAIN layout.registry :
        /\ layout.registry[d].property = camelCase(vname)
        /\ \A e \in DOMAIN layout.registry :
              e < d => layout.registry[e].property # camelCase(vname)

IsTaggedUnionOf(layout, variants, types) ==
    /\ layout.layout = "rustEnum"
    /\ DOMAIN layout.registry = 0..(Len(variants) - 1)
    /\ \A d \in 0..(Len(variants) - 1) :
          /\ layout.registry[d] = ExpectedVariantLayout(variants[d + 1], types)
          /\ DiscriminantOf(layout, variants[d + 1].name) = d

C6_DiscriminantIsDeclarationIndex ==
    /\ (op = "typeDefLayout" /\ arg.type.kind = "enum" /\ ~IsErr(res))
       => /\ IsTaggedUnionOf(res.val, arg.type.variants,
                             [value |-> idlTypes(idl)])
          /\ res.val.property = noName
    /\ (op = "fieldLayout" /\ IsObject(arg.type) /\ "Defined" \in DOMAIN arg.type
           /\ ~IsErr(res) /\ res.val.layout = "rustEnum")
       => LET td == idl.types[CHOOSE k \in MatchesOf(idl, arg.type.Defined) : TRUE]
          IN  /\ IsTaggedUnionOf(res.val, td.type.variants, [value |-> idl.types])
              /\ res.val.property =
                     (IF arg.name # noName THEN camelCase(arg.name) ELSE noName)

\* Three variants A, B, Ga: B, declared second, has discriminant 1.
C6_Witness ==
    /\ op = "typeDefLayout"
    /\ arg.type.kind = "enum"
    /\ Len(arg.type.variants) = 3
    /\ "fields" \in DOMAIN arg.type.variants[2]
    /\ Len(arg.type.variants[2].fields) = 2
    /\ "fields" \notin DOMAIN arg.type.variants[3]
    /\ ~IsErr(res)
    /\ DiscriminantOf(res.val, <<"B">>) = 1
    /\ res.val.registry[1].property = <<"b">>
    /\ Len(res.val.registry[1].fields) = 2
    /\ res.val.registry[2] = borshStruct(<<>>, <<"g", "a">>)

---------------------------------------------------------------------------
(* C7: encodeIdlAccount returns the 32 authority bytes, the 4-byte         *)
(* little-endian payload length and the payload, 36 + len(payload) bytes,  *)
(* whatever the payload's length, and decodeIdlAccount gives the account   *)
(* back.                                                                   *)

C7_EncodeAnyLengthRoundTrips ==
    op = "encodeIdlAccount"
    => /\ ~IsErr(res)
       /\ res.val = arg.authority \o u32le(Len(arg.data)) \o arg.data
       /\ Len(res.val) = 36 + Len(arg.data)
       /\ decodeIdlAccount(res.val) = Ok(arg)

---------------------------------------------------------------------------
(* C8: sighash returns 8 bytes, the first 8 of the digest of               *)
(* namespace ":" snake-cased name, so names of one snake-cased form give   *)
(* one discriminator.                                                      *)

C8_SighashOfNormalizedName ==
    op = "sighash"
    => /\ Len(res.val) = 8
       /\ res.val = SubSeq(sha256digest(arg.nameSpace \o <<":">>
                                            \o snakeCase(arg.ixName)), 1, 8)
       /\ \A n \in IxNames :
              snakeCase(n) = snakeCase(arg.ixName)
              => sighash(arg.nameSpace, n) = res.val

\* aB is hashed as a_b.
C8_Witness ==
    /\ op = "sighash"
    /\ arg.ixName = <<"a", "B">>
    /\ snakeCase(arg.ixName) = <<"a", "_", "b">>
    /\ res.val = sighash(arg.nameSpace, <<"a", "_", "b">>)
    /\ res.val # sighash(arg.nameSpace, <<"a", "b">>)

---------------------------------------------------------------------------
(* C9: accountSize and typeDefLayout end on every schema with a result or  *)
(* an error; a definition that refers to itself is reported, the recursion *)
(* is never without bound.                                                 *)

C9_RecursionIsBounded ==
    op \in {"accountSize", "typeDefLayout"} => res # Err("CallStackExceeded")

---------------------------------------------------------------------------
(* C10: accountSize raises an error on a type definition if and only if    *)
(* typeDefLayout, given the schema's type list, raises one.                *)

C10_EstimatorAndCompilerAgree ==
    op = "accountSize"
    => (IsErr(res) <=> IsErr(typeDefLayout(arg, typesOf(idl), noName, 1)))

=============================================================================
